---- MODULE Spec2Model ----
(***************************************************************************)
(* Interestify: the analysis orchestration pipeline.                       *)
(*   - CacheManager            src/src/core/cache/manager.py               *)
(*   - DataSourceManager       src/src/core/datasources/manager.py         *)
(*   - analyze_posts endpoint  src/src/main.py                             *)
(*   - AnalysisService         src/src/services/analysis_service.py        *)
(*   - SentimentAnalyzer       src/src/core/sentiment/                     *)
(* Times are whole seconds; polarity, confidence and subjectivity are      *)
(* hundredths (0.1 is 10).  An Optional value is a sequence of length 0    *)
(* (None) or 1.                                                            *)
(***************************************************************************)
EXTENDS Integers, Sequences, FiniteSets, TLC

VARIABLES
    cache,              \* CacheManager._cache: key -> entry
    now,                \* time.time()
    available_sources,  \* DataSourceManager._available_sources: name -> class
    data_sources,       \* DataSourceManager._data_sources: insertion-ordered instances
    last,               \* the last operation: its arguments, what it did and returned
    written,            \* history: per key, the last set() not yet invalidated / cleared
    pair,               \* the two queries the cache-level operations are applied to
    sessions,           \* the instances' HTTP sessions (self.session) and the close()
                        \* tasks on the event loop; followed in SpecClose
    inflight            \* the analyze requests being handled, each with the locals
                        \* of its coroutine; followed in SpecRace

vars == <<cache, now, available_sources, data_sources, last, written, pair, sessions, inflight>>

None == <<>>
Some(x) == <<x>>

\* no instance has opened a session.  held: the registry keys of the instances whose
\* session is open; scheduled / leaked / replaced count the instances no longer in
\* the registry whose session is still open: with a close() task waiting on the
\* loop, with no task left that would close it, overwritten by an add.
NoSessions == [held |-> {}, scheduled |-> 0, leaked |-> 0, replaced |-> 0]

\* two request slots, no request being handled
Idle == [pc |-> "idle"]
NoCalls == [i \in 1..2 |-> Idle]

(***************************************************************************)
(* Bounds of the model.                                                    *)
(***************************************************************************)
MaxTime == 3        \* the clock runs 0..MaxTime
MaxTTL == 1         \* explicit ttl arguments are 0..MaxTTL
default_ttl == 2    \* CacheManager(default_ttl=...), scaled down from 3600
MaxHits == 2        \* cap on an entry's hit_count

Min(a, b) == IF a < b THEN a ELSE b
Max(a, b) == IF a > b THEN a ELSE b
Abs(a) == IF a < 0 THEN -a ELSE a

EmptyMap == [x \in {} |-> x]
MapPut(m, k, v) == [x \in DOMAIN m \cup {k} |-> IF x = k THEN v ELSE m[x]]
MapDel(m, k) == [x \in DOMAIN m \ {k} |-> m[x]]

(***************************************************************************)
(* SearchQuery  (src/src/models/schemas.py:47-56)                          *)
(***************************************************************************)
SourceNames == {"twitter", "reddit", "dummy_influencer", "mock"}

SearchQuery(text, sources, limit, offset, start_date, end_date, sentiment, conf, lang) ==
    [query |-> text, data_sources |-> sources, limit |-> limit, offset |-> offset,
     start_date |-> start_date, end_date |-> end_date,
     include_sentiment |-> sentiment, min_confidence |-> conf, language |-> lang]

\* Python's order on the provider names (str.__lt__), as used by sorted()
StrRank(s) ==
    CASE s = "dummy_influencer" -> 1
      [] s = "mock" -> 2
      [] s = "reddit" -> 3
      [] s = "twitter" -> 4

RECURSIVE InsertSorted(_, _)
InsertSorted(x, s) ==
    IF s = <<>> THEN <<x>>
    ELSE IF StrRank(x) <= StrRank(Head(s)) THEN <<x>> \o s
    ELSE <<Head(s)>> \o InsertSorted(x, Tail(s))

\* data_sources taken in the caller's order
unsorted(s) == s

RECURSIVE sorted(_)
sorted(s) == IF s = <<>> THEN <<>> ELSE InsertSorted(Head(s), sorted(Tail(s)))

\* datetime.isoformat(): a date (a day number here) to its text
isoformat(d) == ToString(d)


\* CacheManager._generate_key: the dictionary that is dumped with sorted keys and
\* hashed; md5 over json.dumps is taken to be collision-free on these inputs.
\* The dictionary has no "offset" entry.
_generate_key(q) ==
    [query |-> q.query,
     data_sources |-> sorted(q.data_sources),
     limit |-> q.limit,
     start_date |-> IF q.start_date # None THEN Some(isoformat(q.start_date[1])) ELSE None,
     end_date |-> IF q.end_date # None THEN Some(isoformat(q.end_date[1])) ELSE None,
     include_sentiment |-> q.include_sentiment,
     min_confidence |-> q.min_confidence,
     language |-> q.language]

(***************************************************************************)
(* CacheManager  (src/src/core/cache/manager.py)                           *)
(***************************************************************************)
\* ttl = ttl or self.default_ttl
EffectiveTTL(ttl) == IF ttl = None \/ ttl[1] = 0 THEN default_ttl ELSE ttl[1]

\* an entry that always lives for the default time
CacheEntryDefaultTTL(result, ttl, t) ==
    [data |-> result, created_at |-> t, expires_at |-> t + default_ttl,
     hit_count |-> 0, last_accessed |-> t]

\* the entry set() stores
CacheEntry(result, ttl, t) ==
    [data |-> result, created_at |-> t, expires_at |-> t + EffectiveTTL(ttl),
     hit_count |-> 0, last_accessed |-> t]

cache_set(c, q, result, ttl, t) == MapPut(c, _generate_key(q), CacheEntry(result, ttl, t))

\* an entry still served at its expiry time
FreshAtExpiry(entry, t) == t <= entry.expires_at

\* get(): the "time.time() < cache_entry['expires_at']" test
Fresh(entry, t) == t < entry.expires_at

CacheHit(c, q, t) == _generate_key(q) \in DOMAIN c /\ Fresh(c[_generate_key(q)], t)

\* get(): the value returned
cache_get_result(c, q, t) == IF CacheHit(c, q, t) THEN Some(c[_generate_key(q)].data) ELSE None

\* a get() that serves the entry without counting the hit
cache_get_store_uncounted(c, q, t) ==
    LET k == _generate_key(q) IN
    IF k \notin DOMAIN c THEN c
    ELSE IF Fresh(c[k], t)
         THEN [c EXCEPT ![k].last_accessed = t]
         ELSE MapDel(c, k)

\* get(): the store afterwards (hit: count and last access; expired: evicted)
cache_get_store(c, q, t) ==
    LET k == _generate_key(q) IN
    IF k \notin DOMAIN c THEN c
    ELSE IF Fresh(c[k], t)
         THEN [c EXCEPT ![k].hit_count = @ + 1, ![k].last_accessed = t]
         ELSE MapDel(c, k)

\* a sweep that spares the entries expiring at this very moment
ExpiredKeysPast(c, t) == {k \in DOMAIN c : t > c[k].expires_at}

\* clear_expired(): the keys collected for deletion
ExpiredKeys(c, t) == {k \in DOMAIN c : t >= c[k].expires_at}

\* get_stats(): total_hits += entry["hit_count"] over the entries
RECURSIVE SumHits(_, _)
SumHits(c, keys) ==
    IF keys = {} THEN 0
    ELSE LET k == CHOOSE x \in keys : TRUE IN c[k].hit_count + SumHits(c, keys \ {k})

\* get_stats(): total_entries, expired_entries, active_entries, total_hits
get_stats(c, t) ==
    [total_entries |-> Cardinality(DOMAIN c),
     expired_entries |-> Cardinality(ExpiredKeys(c, t)),
     active_entries |-> Cardinality(DOMAIN c) - Cardinality(ExpiredKeys(c, t)),
     total_hits |-> SumHits(c, DOMAIN c)]

(***************************************************************************)
(* AnalysisResult  (src/src/models/schemas.py:70-79)                       *)
(***************************************************************************)
AnalysisResult(text, total, dist, avg, used, posts, scores, created, took) ==
    [query |-> text, total_posts |-> total, sentiment_distribution |-> dist,
     average_confidence |-> avg, sources_used |-> used, posts |-> posts,
     sentiment_results |-> scores, created_at |-> created, processing_time |-> took]

\* the result the cache tests store (src/tests/test_cache.py:23-37), n posts found
StoredResult(n) ==
    AnalysisResult("test", n, [positive |-> n, negative |-> 0, neutral |-> 0],
                   [num |-> 80, den |-> 1],
                   <<"test">>, <<>>, <<>>, 0, 0)

(***************************************************************************)
(* Cache operations as steps.  `written` remembers, per key, the arguments *)
(* of the last set() that no invalidate() or clear_all() has undone, and   *)
(* `hits`, the number of gets since then that returned its data.           *)
(***************************************************************************)
Registry == <<available_sources, data_sources>>

\* Operations are issued one at a time: `last` holds the response of the operation
\* that ran until Respond hands it to the caller.
NoCall == [op |-> "none"]
Ready == last = NoCall

Respond ==
    /\ last # NoCall
    /\ last' = NoCall
    /\ UNCHANGED <<cache, now, Registry, written, pair, sessions, inflight>>

\* the caller got data back for q: one more hit on what was written
Served(w, q, ret) ==
    IF ret # None /\ _generate_key(q) \in DOMAIN w
    THEN [w EXCEPT ![_generate_key(q)].hits = @ + 1]
    ELSE w

CacheSet(q, result, ttl) ==
    /\ cache' = cache_set(cache, q, result, ttl, now)
    /\ written' = MapPut(written, _generate_key(q),
                         [query |-> q, data |-> result, at |-> now, ttl |-> ttl,
                          hits |-> 0])
    /\ last' = [op |-> "set", query |-> q, ret |-> None, at |-> now]
    /\ UNCHANGED <<now, Registry, pair, sessions, inflight>>

CacheGet(q) ==
    /\ CacheHit(cache, q, now) => cache[_generate_key(q)].hit_count < MaxHits
    /\ cache' = cache_get_store(cache, q, now)
    /\ last' = [op |-> "get", query |-> q, ret |-> cache_get_result(cache, q, now),
                evicted |-> (_generate_key(q) \in DOMAIN cache /\ ~CacheHit(cache, q, now)),
                at |-> now]
    /\ written' = Served(written, q, cache_get_result(cache, q, now))
    /\ UNCHANGED <<now, Registry, pair, sessions, inflight>>

\* get_stats()
CacheGetStats ==
    /\ last' = [op |-> "get_stats", ret |-> get_stats(cache, now), at |-> now]
    /\ UNCHANGED <<cache, now, Registry, written, pair, sessions, inflight>>

\* invalidate(): returns whether the key was stored
CacheInvalidate(q) ==
    /\ cache' = IF _generate_key(q) \in DOMAIN cache
                THEN MapDel(cache, _generate_key(q)) ELSE cache
    /\ written' = IF _generate_key(q) \in DOMAIN written
                  THEN MapDel(written, _generate_key(q)) ELSE written
    /\ last' = [op |-> "invalidate", query |-> q,
                ret |-> (_generate_key(q) \in DOMAIN cache), at |-> now]
    /\ UNCHANGED <<now, Registry, pair, sessions, inflight>>

\* clear_expired(): returns the number of keys removed
CacheClearExpired ==
    /\ cache' = [k \in DOMAIN cache \ ExpiredKeys(cache, now) |-> cache[k]]
    /\ last' = [op |-> "clear_expired", ret |-> Cardinality(ExpiredKeys(cache, now)),
                at |-> now]
    /\ UNCHANGED <<now, Registry, written, pair, sessions, inflight>>

\* a clear_all that reports only the entries that had not expired
CacheClearAllCountsActive ==
    /\ cache' = EmptyMap
    /\ written' = EmptyMap
    /\ last' = [op |-> "clear_all", ret |-> get_stats(cache, now).active_entries,
                expired |-> get_stats(cache, now).expired_entries, at |-> now]
    /\ UNCHANGED <<now, Registry, pair, sessions, inflight>>

\* clear_all(): returns the number of entries before the call.  `expired` notes how
\* many of them had expired, for the properties; the caller does not see it.
CacheClearAll ==
    /\ cache' = EmptyMap
    /\ written' = EmptyMap
    /\ last' = [op |-> "clear_all", ret |-> Cardinality(DOMAIN cache),
                expired |-> get_stats(cache, now).expired_entries, at |-> now]
    /\ UNCHANGED <<now, Registry, pair, sessions, inflight>>

\* time passes
Tick ==
    /\ now < MaxTime
    /\ now' = now + 1
    /\ last' = last
    /\ UNCHANGED <<cache, Registry, written, pair, sessions, inflight>>

(***************************************************************************)
(* Queries for the cache-key checks: every field takes two values, the     *)
(* provider list four.                                                     *)
(***************************************************************************)
MaxLimit == 2       \* limit is 1..MaxLimit (1..500 in SearchQuery)
MaxOffset == 1      \* offset is 0..MaxOffset

KeyTexts == {"test", "different"}
KeySourceLists == {<<>>, <<"twitter">>, <<"twitter", "reddit">>, <<"reddit", "twitter">>}
KeyDates == {None, Some(1)}
KeyConfidences == {50, 80}
KeyLanguages == {Some("en"), None}

KeyQueries ==
    {SearchQuery(t, s, l, o, sd, ed, f, c, g) :
        t \in KeyTexts, s \in KeySourceLists, l \in 1..MaxLimit, o \in 0..MaxOffset,
        sd \in KeyDates, ed \in KeyDates, f \in BOOLEAN, c \in KeyConfidences,
        g \in KeyLanguages}

ScalarFields ==
    {"query", "limit", "offset", "start_date", "end_date", "include_sentiment",
     "min_confidence", "language"}

FieldOf(q, f) ==
    CASE f = "query" -> Some(q.query)
      [] f = "limit" -> Some(q.limit)
      [] f = "offset" -> Some(q.offset)
      [] f = "start_date" -> Some(q.start_date)
      [] f = "end_date" -> Some(q.end_date)
      [] f = "include_sentiment" -> Some(q.include_sentiment)
      [] f = "min_confidence" -> Some(q.min_confidence)
      [] f = "language" -> Some(q.language)

DifferingFields(q1, q2) == {f \in ScalarFields : FieldOf(q1, f) # FieldOf(q2, f)}

Count(s, x) == Cardinality({i \in DOMAIN s : s[i] = x})
SameUpToOrder(s1, s2) ==
    /\ Len(s1) = Len(s2)
    /\ \A i \in DOMAIN s1 : Count(s1, s1[i]) = Count(s2, s1[i])

\* q1, q2 differ in exactly one of the scalar fields and in nothing else
DifferInOneField(q1, q2) ==
    Cardinality(DifferingFields(q1, q2)) = 1 /\ q1.data_sources = q2.data_sources

\* q1, q2 are field-wise identical except for the order of data_sources
DifferInOrderOnly(q1, q2) ==
    DifferingFields(q1, q2) = {} /\ SameUpToOrder(q1.data_sources, q2.data_sources)

KeyBaseQueries ==
    {q \in KeyQueries :
        /\ q.query = "test" /\ q.start_date = None /\ q.end_date = None
        /\ q.include_sentiment /\ q.min_confidence = 50 /\ q.language = Some("en")}

KeyPairs ==
    {<<q1, q2>> \in KeyBaseQueries \X KeyQueries :
        \/ DifferInOneField(q1, q2)
        \/ DifferingFields(q1, q2) = {}}

QA == SearchQuery("test", <<>>, 1, 0, None, None, TRUE, 50, Some("en"))
QB == SearchQuery("different", <<"twitter">>, 1, 0, None, None, TRUE, 50, Some("en"))

\* DataSourceManager.__init__: the two built-in types, then load_plugins() registers
\* plugins/dummy_influencer.py under its module name; nothing is configured yet
InitRegistry ==
    /\ available_sources =
          [n \in {"twitter", "reddit", "dummy_influencer"} |->
              CASE n = "twitter" -> "TwitterDataSource"
                [] n = "reddit" -> "RedditDataSource"
                [] n = "dummy_influencer" -> "DummyInfluencerSource"]
    /\ data_sources = <<>>

\* Two queries through one CacheManager, no time passing: set and get with either.
InitKey ==
    /\ cache = EmptyMap
    /\ now = 0
    /\ InitRegistry
    /\ last = NoCall
    /\ written = EmptyMap
    /\ pair \in KeyPairs
    /\ sessions = NoSessions
    /\ inflight = NoCalls

KeySet == Ready /\ \E i \in 1..2 : CacheSet(pair[i], StoredResult(i), None)
KeyGet == Ready /\ \E i \in 1..2 : CacheGet(pair[i])
KeyInvalidate == Ready /\ \E i \in 1..2 : CacheInvalidate(pair[i])

NextKey == KeySet \/ KeyGet \/ KeyInvalidate \/ Respond

SpecKey == InitKey /\ [][NextKey]_vars

\* One CacheManager under every operation and a running clock.
CacheResults == {StoredResult(1), StoredResult(2)}
TTLs == {None} \cup {Some(t) : t \in 0..MaxTTL}

InitCache ==
    /\ cache = EmptyMap
    /\ now = 0
    /\ InitRegistry
    /\ last = NoCall
    /\ written = EmptyMap
    /\ pair = <<QA, QB>>
    /\ sessions = NoSessions
    /\ inflight = NoCalls

DoSet == Ready /\ \E i \in 1..2, r \in CacheResults, ttl \in TTLs : CacheSet(pair[i], r, ttl)
DoGet == Ready /\ \E i \in 1..2 : CacheGet(pair[i])
DoInvalidate == Ready /\ \E i \in 1..2 : CacheInvalidate(pair[i])

DoClearExpired == Ready /\ CacheClearExpired
DoClearAll == Ready /\ CacheClearAll
DoStats == Ready /\ CacheGetStats
DoTick == Ready /\ Tick

NextCache ==
    \/ DoSet \/ DoGet \/ DoInvalidate \/ DoClearExpired \/ DoClearAll
    \/ DoStats \/ DoTick \/ Respond

SpecCache == InitCache /\ [][NextCache]_vars

(***************************************************************************)
(* Claims about the cache key  (SpecKey)                                   *)
(***************************************************************************)
\* C3: two queries that differ in exactly one of text, limit, offset, start date,
\* end date, sentiment flag, minimum confidence and language have different cache
\* keys, so a get with one never returns the result that was stored with the other.
C3_SingleFieldChangesKey ==
    \A i \in 1..2 :
        (/\ DifferInOneField(pair[1], pair[2])
         /\ last.op = "get" /\ last.query = pair[i] /\ last.ret # None)
        => /\ _generate_key(pair[1]) # _generate_key(pair[2])
           /\ last.ret # Some(StoredResult(3 - i))

\* C4: two queries that are identical except for the order of data_sources have
\* the same cache key, and a get with one returns what the last set with the other
\* stored.
C4_OrderOfSourcesIgnored ==
    DifferInOrderOnly(pair[1], pair[2]) =>
        /\ _generate_key(pair[1]) = _generate_key(pair[2])
        /\ \A i \in 1..2 :
              (/\ last.op = "get" /\ last.query = pair[i]
               /\ \E k \in DOMAIN written : written[k].query = pair[3 - i])
              => \E k \in DOMAIN written :
                    /\ written[k].query = pair[3 - i]
                    /\ last.ret = Some(written[k].data)

\* C4 happens: the lists are in different orders, the first query was stored and the
\* get with the second returned its result.
C4_Witness ==
    /\ pair[1].data_sources # pair[2].data_sources
    /\ DifferInOrderOnly(pair[1], pair[2])
    /\ last.op = "get" /\ last.query = pair[2]
    /\ last.ret = Some(StoredResult(1))

(***************************************************************************)
(* Claims about expiry  (SpecCache)                                        *)
(***************************************************************************)
\* C5: a get at or past the expiry time of the stored entry returns None and
\* leaves the key out of the store, whatever ran before it.
C5_NoExpiredRead ==
    [][\A i \in 1..2 :
          LET k == _generate_key(pair[i]) IN
          (/\ last'.op = "get" /\ last'.query = pair[i]
           /\ k \in DOMAIN cache /\ now >= cache[k].expires_at)
          => (last'.ret = None /\ k \notin DOMAIN cache')]_vars

\* C5 happens: a get found an entry past its expiry, evicted it and returned None.
C5_Witness ==
    /\ last.op = "get" /\ last.evicted /\ last.ret = None
    /\ _generate_key(last.query) \in DOMAIN written
    /\ _generate_key(last.query) \notin DOMAIN cache

DataSourceConfig(name, enabled, api_key) ==
    [name |-> name, enabled |-> enabled, api_key |-> api_key]

\* DataSource.__init__: self.config = config, self.name = config.name
DataSource(cls, config) == [name |-> config.name, cls |-> cls, config |-> config]

\* an availability that does not look at config.enabled
is_available_ignoring_enabled(source) ==
    CASE source.cls = "TwitterDataSource" -> source.config.api_key
      [] OTHER -> TRUE

\* is_available() of each class; PluginDataSource is a DataSource subclass registered
\* at run time (the tests' MockDataSource: available when enabled)
is_available(source) ==
    CASE source.cls = "TwitterDataSource" -> source.config.api_key /\ source.config.enabled
      [] source.cls = "RedditDataSource" -> source.config.enabled
      [] source.cls = "DummyInfluencerSource" -> TRUE
      [] source.cls = "PluginDataSource" -> source.config.enabled

Range(s) == {s[i] : i \in DOMAIN s}
Keys(ds) == {ds[i].name : i \in DOMAIN ds}
IndexOf(ds, name) == CHOOSE i \in DOMAIN ds : ds[i].name = name

\* self._data_sources[name] = source: in place when the key exists, else at the end
DictPut(ds, source) ==
    IF source.name \in Keys(ds)
    THEN [ds EXCEPT ![IndexOf(ds, source.name)] = source]
    ELSE Append(ds, source)

\* del self._data_sources[name]
DictDel(ds, name) == SelectSeq(ds, LAMBDA s : s.name # name)

\* an add that stores the instance without asking whether it is available
add_data_source_unchecked(avail, ds, config) ==
    IF config.name \in DOMAIN avail
    THEN [sources |-> DictPut(ds, DataSource(avail[config.name], config)), ret |-> TRUE]
    ELSE [sources |-> ds, ret |-> FALSE]

\* add_data_source: the instance collection afterwards and the value returned
add_data_source(avail, ds, config) ==
    IF config.name \in DOMAIN avail
    THEN LET source == DataSource(avail[config.name], config) IN
         IF is_available(source)
         THEN [sources |-> DictPut(ds, source), ret |-> TRUE]
         ELSE [sources |-> ds, ret |-> FALSE]
    ELSE [sources |-> ds, ret |-> FALSE]

\* a remove that lets a failing close() escape, before the deletion
remove_data_source_close_escapes(ds, name, close_fails) ==
    IF name \in Keys(ds)
    THEN IF close_fails
         THEN [sources |-> ds, ret |-> FALSE, raised |-> TRUE]
         ELSE [sources |-> DictDel(ds, name), ret |-> TRUE, raised |-> FALSE]
    ELSE [sources |-> ds, ret |-> FALSE, raised |-> FALSE]

\* remove_data_source.  close_fails: scheduling or running the instance's close()
\* fails; the bare except passes and the deletion follows either way.
remove_data_source(ds, name, close_fails) ==
    IF name \in Keys(ds)
    THEN [sources |-> DictDel(ds, name), ret |-> TRUE, raised |-> FALSE]
    ELSE [sources |-> ds, ret |-> FALSE, raised |-> FALSE]

\* an update that puts the old instance back when the add fails
update_source_config_rollback(avail, ds, name, config, close_fails) ==
    IF name \in Keys(ds)
    THEN LET added == add_data_source(avail, remove_data_source(ds, name, close_fails).sources,
                                      config)
         IN  IF added.ret THEN added ELSE [sources |-> ds, ret |-> FALSE]
    ELSE [sources |-> ds, ret |-> FALSE]

\* update_source_config: remove, then add with the new config
update_source_config(avail, ds, name, config, close_fails) ==
    IF name \in Keys(ds)
    THEN add_data_source(avail, remove_data_source(ds, name, close_fails).sources, config)
    ELSE [sources |-> ds, ret |-> FALSE]

\* get_enabled_sources
get_enabled_sources(ds) == SelectSeq(ds, LAMBDA s : s.config.enabled)

RegisterDataSource(name, cls) ==
    /\ available_sources' = MapPut(available_sources, name, cls)
    /\ last' = [op |-> "register_data_source", name |-> name, cls |-> cls]
    /\ UNCHANGED <<cache, now, data_sources, written, pair, sessions, inflight>>

AddDataSource(config) ==
    /\ data_sources' = add_data_source(available_sources, data_sources, config).sources
    /\ last' = [op |-> "add_data_source", config |-> config,
                ret |-> add_data_source(available_sources, data_sources, config).ret]
    /\ UNCHANGED <<cache, now, available_sources, written, pair, sessions, inflight>>

RemoveDataSource(name, close_fails) ==
    /\ data_sources' = remove_data_source(data_sources, name, close_fails).sources
    /\ last' = [op |-> "remove_data_source", name |-> name, close_fails |-> close_fails,
                ret |-> remove_data_source(data_sources, name, close_fails).ret,
                raised |-> remove_data_source(data_sources, name, close_fails).raised]
    /\ UNCHANGED <<cache, now, available_sources, written, pair, sessions, inflight>>

\* an update that leaves the registry alone when the config carries another name
UpdateSourceConfigKeepsName(name, config, close_fails) ==
    LET updated == IF config.name = name
                   THEN update_source_config(available_sources, data_sources, name,
                                             config, close_fails)
                   ELSE [sources |-> data_sources, ret |-> name \in Keys(data_sources)]
    IN  /\ data_sources' = updated.sources
        /\ last' = [op |-> "update_source_config", name |-> name, config |-> config,
                    existed |-> name \in Keys(data_sources), ret |-> updated.ret]
        /\ UNCHANGED <<cache, now, available_sources, written, pair, sessions, inflight>>

UpdateSourceConfig(name, config, close_fails) ==
    /\ data_sources' =
          update_source_config(available_sources, data_sources, name, config,
                               close_fails).sources
    /\ last' = [op |-> "update_source_config", name |-> name, config |-> config,
                existed |-> name \in Keys(data_sources),
                ret |-> update_source_config(available_sources, data_sources,
                                             name, config, close_fails).ret]
    /\ UNCHANGED <<cache, now, available_sources, written, pair, sessions, inflight>>

(***************************************************************************)
(* Posts and what the providers return                                     *)
(***************************************************************************)
MaxPosts == 2       \* a provider returns at most MaxPosts posts to one search

\* Post (src/src/models/schemas.py:21-34): the fields the pipeline reads
Post(id, text, source, timestamp) ==
    [id |-> id, text |-> text, source |-> source, timestamp |-> timestamp]

PostText(k) ==
    CASE k % 3 = 1 -> "love it"
      [] k % 3 = 2 -> "awful"
      [] OTHER -> "so so"

\* the k-th post a source has for a query.  Ids are assigned by the provider: the
\* built-in providers' ids carry a prefix here, plugin classes number their posts
\* "1", "2", ... as DummyInfluencerSource does, so two plugin instances can return
\* posts with equal ids.
FeedPost(source, k) ==
    CASE source.cls = "TwitterDataSource" ->
            Post("t" \o ToString(k), PostText(k), "twitter", k)
      [] source.cls = "RedditDataSource" ->
            Post("r" \o ToString(k), PostText(k + 1), "reddit", k)
      [] source.cls = "DummyInfluencerSource" ->
            Post(ToString(k), IF k = 1 THEN "I love my fans!" ELSE "Feeling grateful.",
                 "dummy_influencer", k)
      [] source.cls = "PluginDataSource" ->
            Post(ToString(k), IF k = 1 THEN "garbled" ELSE PostText(k), source.name, k)

Feed(source, n) == [k \in 1..n |-> FeedPost(source, k)]

\* what one search_posts call did: the posts it returned, or raises; failed says
\* that the fetch behind it failed (transport exception, timeout, non-200 status)
Returned(posts) == [raises |-> FALSE, failed |-> FALSE, posts |-> posts]
Raised == [raises |-> TRUE, failed |-> TRUE, posts |-> <<>>]

\* Twitter, Reddit: "except Exception: return []" and "else: return []"
FetchFailed == [raises |-> FALSE, failed |-> TRUE, posts |-> <<>>]

\* search_posts(query) of each class: what one call can do.
\*   Twitter, Reddit: [] when unavailable, on a non-200 status and on any exception
\*     of the request; else the parsed and bot-filtered posts.  Never raises.
\*   DummyInfluencerSource: always its two posts.
\*   PluginDataSource: whatever a third-party subclass does: posts, or an exception.
search_posts(source) ==
    CASE source.cls \in {"TwitterDataSource", "RedditDataSource"} ->
            IF is_available(source)
            THEN {FetchFailed} \cup {Returned(Feed(source, n)) : n \in 0..MaxPosts}
            ELSE {Returned(<<>>)}
      [] source.cls = "DummyInfluencerSource" -> {Returned(Feed(source, 2))}
      [] source.cls = "PluginDataSource" ->
            {Raised} \cup {Returned(Feed(source, n)) : n \in 0..MaxPosts}

AllResponses == {Raised} \cup UNION {search_posts(s) : s \in Range(data_sources)}

\* one response for every configured source
Responses ==
    {r \in [Keys(data_sources) -> AllResponses] :
        \A i \in DOMAIN data_sources :
            r[data_sources[i].name] \in search_posts(data_sources[i])}

(***************************************************************************)
(* paginate_results  (src/src/utils/pagination.py:18-39)                   *)
(***************************************************************************)
DefaultPageLimit == 50

\* items[start:end] for 0 <= start <= end
Slice(items, start, end) ==
    IF start >= Len(items) THEN <<>> ELSE SubSeq(items, start + 1, Min(end, Len(items)))

\* a pagination that keeps the caller's limit as it is
paginate_results_any_limit(items, offset, limit) ==
    LET o == IF offset < 0 THEN 0 ELSE offset
    IN  Slice(items, o, o + limit)

paginate_results(items, offset, limit) ==
    LET o == IF offset < 0 THEN 0 ELSE offset
        l == IF limit <= 0 THEN DefaultPageLimit ELSE limit
    IN  Slice(items, o, o + l)

(***************************************************************************)
(* Sentiment analysis  (src/src/core/sentiment/)                           *)
(***************************************************************************)
\* SentimentAnalyzerFactory._analyzers
Analyzers == {"textblob", "vader"}

get_name(analyzer) == IF analyzer = "textblob" THEN "TextBlob" ELSE "VADER"

\* what the libraries compute for the texts above: TextBlob(text).sentiment
TextBlobSentiment(text) ==
    CASE text = "love it" -> [polarity |-> 50, subjectivity |-> 60]
      [] text = "awful" -> [polarity |-> -100, subjectivity |-> 100]
      [] text = "so so" -> [polarity |-> 10, subjectivity |-> 50]
      [] text = "I love my fans!" -> [polarity |-> 63, subjectivity |-> 60]
      [] text = "Feeling grateful." -> [polarity |-> 0, subjectivity |-> 0]
      [] OTHER -> [polarity |-> 0, subjectivity |-> 0]

\* SentimentIntensityAnalyzer.polarity_scores(text)
VaderScores(text) ==
    CASE text = "love it" -> [compound |-> 64, pos |-> 80, neg |-> 0]
      [] text = "awful" -> [compound |-> -46, pos |-> 0, neg |-> 100]
      [] text = "so so" -> [compound |-> -10, pos |-> 0, neg |-> 20]
      [] text = "I love my fans!" -> [compound |-> 67, pos |-> 68, neg |-> 0]
      [] text = "Feeling grateful." -> [compound |-> 57, pos |-> 80, neg |-> 0]
      [] OTHER -> [compound |-> 0, pos |-> 0, neg |-> 0]

\* the library call fails on this text (TextBlob on "garbled")
LibraryRaises(analyzer, text) == analyzer = "textblob" /\ text = "garbled"

\* a rule that includes the thresholds themselves
_classify_sentiment_inclusive(polarity) ==
    IF polarity >= 10 THEN "positive"
    ELSE IF polarity <= -10 THEN "negative"
    ELSE "neutral"

_classify_sentiment(polarity) ==
    IF polarity > 10 THEN "positive"
    ELSE IF polarity < -10 THEN "negative"
    ELSE "neutral"

\* TextBlobAnalyzer.analyze / VaderAnalyzer.analyze
analyze(analyzer, text) ==
    IF analyzer = "textblob"
    THEN LET b == TextBlobSentiment(text) IN
         [sentiment |-> _classify_sentiment(b.polarity),
          confidence |-> Min(Abs(b.polarity) + 50, 100),
          polarity |-> b.polarity, subjectivity |-> b.subjectivity]
    ELSE LET v == VaderScores(text) IN
         [sentiment |-> _classify_sentiment(v.compound),
          confidence |-> Min(Abs(v.compound) + 30, 100),
          polarity |-> v.compound, subjectivity |-> Max(v.pos, v.neg)]

\* analyze_batch: one result per text, the neutral fallback where analyze raised
analyze_batch(analyzer, texts) ==
    [i \in DOMAIN texts |->
        IF LibraryRaises(analyzer, texts[i])
        THEN [sentiment |-> "neutral", confidence |-> 0, polarity |-> 0, subjectivity |-> 0]
        ELSE analyze(analyzer, texts[i])]

\* a zip that stamps every score with the id of the first post
process_posts_first_id(analyzer, posts) ==
    LET results == analyze_batch(analyzer, [i \in DOMAIN posts |-> posts[i].text]) IN
    [i \in 1..Min(Len(posts), Len(results)) |->
        [post_id |-> posts[1].id,
         sentiment |-> results[i].sentiment,
         confidence |-> results[i].confidence,
         polarity |-> results[i].polarity,
         subjectivity |-> results[i].subjectivity,
         analyzer_used |-> get_name(analyzer),
         created_at |-> posts[i].timestamp]]

\* process_posts: zip(posts, results)
process_posts(analyzer, posts) ==
    LET results == analyze_batch(analyzer, [i \in DOMAIN posts |-> posts[i].text]) IN
    [i \in 1..Min(Len(posts), Len(results)) |->
        [post_id |-> posts[i].id,
         sentiment |-> results[i].sentiment,
         confidence |-> results[i].confidence,
         polarity |-> results[i].polarity,
         subjectivity |-> results[i].subjectivity,
         analyzer_used |-> get_name(analyzer),
         created_at |-> posts[i].timestamp]]

(***************************************************************************)
(* The analysis pipeline.  main.py:97-165 and analysis_service.py:45-119   *)
(* are the same statements; the operators below are shared by both.        *)
(***************************************************************************)
\* "Filter sources based on query"
\* a filter that walks the query's list of names instead of the enabled instances
sources_to_use_query_order(enabled, q) ==
    IF q.data_sources # <<>>
    THEN LET named == SelectSeq(q.data_sources, LAMBDA n : n \in Keys(enabled))
         IN  [i \in DOMAIN named |-> enabled[IndexOf(enabled, named[i])]]
    ELSE enabled

sources_to_use(enabled, q) ==
    IF q.data_sources # <<>>
    THEN SelectSeq(enabled, LAMBDA s : s.name \in Range(q.data_sources))
    ELSE enabled

\* a loop that gives up at the first source that raises
RECURSIVE FanOutUntilError(_, _)
FanOutUntilError(sources, resp) ==
    IF sources = <<>> \/ resp[Head(sources).name].raises
    THEN [all_posts |-> <<>>, sources_used |-> <<>>]
    ELSE LET rest == FanOutUntilError(Tail(sources), resp) IN
         [all_posts |-> resp[Head(sources).name].posts \o rest.all_posts,
          sources_used |-> <<Head(sources).name>> \o rest.sources_used]

\* "Collect posts from all sources": the for loop with its try / except / continue
RECURSIVE FanOut(_, _)
FanOut(sources, resp) ==
    IF sources = <<>> THEN [all_posts |-> <<>>, sources_used |-> <<>>]
    ELSE LET rest == FanOut(Tail(sources), resp) IN
         IF resp[Head(sources).name].raises THEN rest
         ELSE [all_posts |-> resp[Head(sources).name].posts \o rest.all_posts,
               sources_used |-> <<Head(sources).name>> \o rest.sources_used]

\* "Perform sentiment analysis if requested": create_analyzer raises ValueError for
\* an unknown name, and the except clause leaves sentiment_results empty
\* an orchestrator that scores with whatever name it is given
AnalyzerRunsAnyName(q, analyzer_name) == q.include_sentiment

AnalyzerRuns(q, analyzer_name) == q.include_sentiment /\ analyzer_name \in Analyzers

sentiment_results(q, analyzer_name, paginated_posts) ==
    IF AnalyzerRuns(q, analyzer_name)
    THEN process_posts(analyzer_name, paginated_posts)
    ELSE <<>>

\* a distribution that counts no neutral score
sentiment_distribution_without_neutral(scores) ==
    [positive |-> Cardinality({i \in DOMAIN scores : scores[i].sentiment = "positive"}),
     negative |-> Cardinality({i \in DOMAIN scores : scores[i].sentiment = "negative"}),
     neutral |-> 0]

\* "Calculate sentiment distribution"
sentiment_distribution(scores) ==
    [positive |-> Cardinality({i \in DOMAIN scores : scores[i].sentiment = "positive"}),
     negative |-> Cardinality({i \in DOMAIN scores : scores[i].sentiment = "negative"}),
     neutral |-> Cardinality({i \in DOMAIN scores : scores[i].sentiment = "neutral"})]

RECURSIVE SumConfidence(_)
SumConfidence(scores) ==
    IF scores = <<>> THEN 0 ELSE Head(scores).confidence + SumConfidence(Tail(scores))

\* "Calculate average confidence": the quotient sum / len, kept as a fraction
avg_confidence(scores) ==
    IF scores # <<>>
    THEN [num |-> SumConfidence(scores), den |-> Len(scores)]
    ELSE [num |-> 0, den |-> 1]

\* the number of posts on the returned page
page_size(all_posts, paginated_posts) == Len(paginated_posts)

\* total_posts=len(all_posts)
total_posts(all_posts, paginated_posts) == Len(all_posts)

\* from the fan-out to the AnalysisResult, for sources that are enabled and not empty
Pipeline(q, analyzer_name, resp, enabled, t) ==
    LET use == sources_to_use(enabled, q)
        fan == FanOut(use, resp)
        paginated_posts == paginate_results(fan.all_posts, q.offset, q.limit)
        scores == sentiment_results(q, analyzer_name, paginated_posts)
    IN  [searched |-> [i \in DOMAIN use |-> use[i].name],
         all_posts |-> fan.all_posts,
         analyzer_ran |-> AnalyzerRuns(q, analyzer_name),
         result |-> AnalysisResult(q.query, total_posts(fan.all_posts, paginated_posts),
                                   sentiment_distribution(scores), avg_confidence(scores),
                                   fan.sources_used, paginated_posts, scores, t, 0)]

Call(op, q, analyzer_name, use_cache) ==
    [op |-> op, query |-> q, analyzer_name |-> analyzer_name, use_cache |-> use_cache]

Outcome(call, outcome, from_cache, result, resp, searched, analyzer_ran, persisted) ==
    [op |-> call.op, query |-> call.query, analyzer_name |-> call.analyzer_name,
     use_cache |-> call.use_cache, outcome |-> outcome, from_cache |-> from_cache,
     result |-> result, responses |-> resp, searched |-> searched,
     analyzer_ran |-> analyzer_ran, persisted |-> persisted]

\* main.py analyze_posts (POST /api/v1/analyze).  The BackgroundTasks object made at
\* the end is local and never run, so nothing reaches the database from here.
AnalyzePosts(q, analyzer_name, use_cache, resp) ==
    LET call == Call("analyze_posts", q, analyzer_name, use_cache)
        hit == use_cache /\ CacheHit(cache, q, now)
        looked == IF use_cache THEN cache_get_store(cache, q, now) ELSE cache
        enabled == get_enabled_sources(data_sources)
        run == Pipeline(q, analyzer_name, resp, enabled, now)
    IN  /\ hit => cache[_generate_key(q)].hit_count < MaxHits
        /\ IF hit
           THEN /\ cache' = looked
                /\ written' = Served(written, q, cache_get_result(cache, q, now))
                /\ last' = Outcome(call, "returned", TRUE,
                                   cache_get_result(cache, q, now),
                                   EmptyMap, <<>>, FALSE, <<>>)
           ELSE IF enabled = <<>>
           THEN /\ cache' = looked
                /\ written' = written
                /\ last' = Outcome(call, "raised", FALSE, None, EmptyMap, <<>>, FALSE, <<>>)
           ELSE /\ cache' = IF use_cache
                            THEN cache_set(looked, q, run.result, None, now)
                            ELSE looked
                /\ written' = IF use_cache
                              THEN MapPut(written, _generate_key(q),
                                          [query |-> q, data |-> run.result,
                                           at |-> now, ttl |-> None, hits |-> 0])
                              ELSE written
                /\ last' = Outcome(call, "returned", FALSE, Some(run.result), resp,
                                   run.searched, run.analyzer_ran, <<>>)
        /\ UNCHANGED <<now, Registry, pair, sessions, inflight>>

\* what the database does with each kind of store call during one analyze
StoreCalls == {"store_sentiment_result", "store_analysis_result", "store_post"}
DbOutcomes == [StoreCalls -> {"stored", "raises"}]
AllStored == [c \in StoreCalls |-> "stored"]

\* a repository method without its try / except
RepositorySaveUnguarded(outcome) == [ret |-> outcome = "stored", raised |-> outcome = "raises"]

\* DatabaseAnalysisRepository.save_*: True, or False when the store call raised
RepositorySave(outcome) == [ret |-> outcome = "stored", raised |-> FALSE]

\* what AnalysisService.analyze_posts hands to the repository, in order, and what
\* each call did.  save_sentiment_results sits inside the sentiment try block;
\* save_analysis_result and save_posts are awaited bare.
Persisted(run, db) ==
    LET scores == IF run.result.sentiment_results # <<>>
                  THEN <<[call |-> "save_sentiment_results"]
                         @@ RepositorySave(db["store_sentiment_result"])>>
                  ELSE <<>>
        result == <<[call |-> "save_analysis_result"]
                    @@ RepositorySave(db["store_analysis_result"])>>
        posts == IF run.all_posts # <<>> /\ ~result[1].raised
                 THEN <<[call |-> "save_posts"] @@ RepositorySave(db["store_post"])>>
                 ELSE <<>>
    IN  scores \o result \o posts

\* an exception of save_analysis_result or save_posts leaves analyze_posts
Escapes(persisted) ==
    \E i \in DOMAIN persisted :
        persisted[i].raised /\ persisted[i].call # "save_sentiment_results"

\* AnalysisService.analyze_posts.  use_cache is a parameter the body never reads.
ServiceAnalyzePosts(q, analyzer_name, use_cache, resp, db) ==
    LET call == Call("AnalysisService.analyze_posts", q, analyzer_name, use_cache)
        enabled == get_enabled_sources(data_sources)
        run == Pipeline(q, analyzer_name, resp, enabled, now)
    IN  /\ IF enabled = <<>>
           THEN last' = Outcome(call, "raised", FALSE, None, EmptyMap, <<>>, FALSE, <<>>)
           ELSE IF Escapes(Persisted(run, db))
           THEN last' = Outcome(call, "raised", FALSE, None, resp,
                                run.searched, run.analyzer_ran, Persisted(run, db))
           ELSE last' = Outcome(call, "returned", FALSE, Some(run.result), resp,
                                run.searched, run.analyzer_ran, Persisted(run, db))
        /\ UNCHANGED <<cache, written, now, Registry, pair, sessions, inflight>>

\* names a caller may pass: the two of the factory, one the factory does not know
\* (create_analyzer raises ValueError) and one added through register_analyzer
\* whose process_posts raises
AnalyzerNames == Analyzers \cup {"unknown", "raising"}

ConfigsFor(names) ==
    {DataSourceConfig(n, e, k) : n \in names, e \in BOOLEAN, k \in BOOLEAN}

(***************************************************************************)
(* SpecFanout: the registry and both analyze handlers over many queries    *)
(* and provider responses; the endpoint is called with use_cache false.    *)
(***************************************************************************)
FanoutNames == {"twitter", "dummy_influencer", "mock"}

FanoutConfigs ==
    {c \in ConfigsFor(FanoutNames \cup {"facebook"}) : c.api_key = (c.name = "twitter")}

FanoutQueries ==
    {SearchQuery("test", s, l, o, None, None, f, 50, Some("en")) :
        s \in {<<>>, <<"mock", "twitter">>}, l \in 1..MaxLimit, o \in 0..MaxOffset,
        f \in BOOLEAN}

InitFanout ==
    /\ cache = EmptyMap
    /\ now = 0
    /\ InitRegistry
    /\ last = NoCall
    /\ written = EmptyMap
    /\ pair = <<QA, QB>>
    /\ sessions = NoSessions
    /\ inflight = NoCalls

FanoutRegister == Ready /\ RegisterDataSource("mock", "PluginDataSource")
FanoutAdd == Ready /\ \E c \in FanoutConfigs : AddDataSource(c)
FanoutRemove == Ready /\ \E n \in FanoutNames, f \in BOOLEAN : RemoveDataSource(n, f)
FanoutUpdate ==
    Ready /\ \E n \in FanoutNames, c \in FanoutConfigs, f \in BOOLEAN :
        UpdateSourceConfig(n, c, f)
FanoutAnalyze ==
    Ready /\ \E q \in FanoutQueries, a \in AnalyzerNames, r \in Responses :
        AnalyzePosts(q, a, FALSE, r)
FanoutServiceAnalyze ==
    Ready /\ \E q \in FanoutQueries, a \in AnalyzerNames, r \in Responses :
        ServiceAnalyzePosts(q, a, TRUE, r, AllStored)

NextFanout ==
    \/ FanoutRegister \/ FanoutAdd \/ FanoutRemove \/ FanoutUpdate
    \/ FanoutAnalyze \/ FanoutServiceAnalyze \/ Respond

SpecFanout == InitFanout /\ [][NextFanout]_vars

(***************************************************************************)
(* Spec: the endpoint and the service over one CacheManager and one        *)
(* DataSourceManager, with the clock running.  Two queries, two provider   *)
(* names, at most one post from each provider.                             *)
(***************************************************************************)
SpecNames == {"mock"}

SpecConfigs == {c \in ConfigsFor(SpecNames) : ~c.api_key}

\* all enabled sources / only "reddit", which is never configured here
QAll == SearchQuery("test", <<>>, 1, 0, None, None, TRUE, 50, Some("en"))
QReddit == SearchQuery("test", <<"reddit">>, 1, 0, None, None, FALSE, 50, Some("en"))
SpecQueries == {QAll, QReddit}

ShortResponses == {r \in Responses : \A n \in DOMAIN r : r[n].raises \/ Len(r[n].posts) = 1}

Init ==
    /\ cache = EmptyMap
    /\ now = 0
    /\ InitRegistry
    /\ last = NoCall
    /\ written = EmptyMap
    /\ pair = <<QAll, QReddit>>
    /\ sessions = NoSessions
    /\ inflight = NoCalls

Register == Ready /\ RegisterDataSource("mock", "PluginDataSource")
Add == Ready /\ \E c \in SpecConfigs : AddDataSource(c)
\* a remove that also empties the cache
RemoveAndClearCache ==
    /\ Ready
    /\ \E n \in SpecNames :
          /\ data_sources' = remove_data_source(data_sources, n, FALSE).sources
          /\ last' = [op |-> "remove_data_source", name |-> n, close_fails |-> FALSE,
                      ret |-> remove_data_source(data_sources, n, FALSE).ret,
                      raised |-> FALSE]
    /\ cache' = EmptyMap
    /\ UNCHANGED <<now, available_sources, written, pair, sessions, inflight>>

Remove == Ready /\ \E n \in SpecNames : RemoveDataSource(n, FALSE)
Update == Ready /\ \E n \in SpecNames, c \in SpecConfigs : UpdateSourceConfig(n, c, FALSE)
Analyze ==
    Ready /\ \E q \in SpecQueries, u \in BOOLEAN, r \in ShortResponses :
        AnalyzePosts(q, "textblob", u, r)
ServiceAnalyze ==
    Ready /\ \E q \in SpecQueries, u \in BOOLEAN, r \in ShortResponses :
        ServiceAnalyzePosts(q, "textblob", u, r, AllStored)
Clock == Ready /\ Tick

Next ==
    \/ Register \/ Add \/ Remove \/ Update
    \/ Analyze \/ ServiceAnalyze \/ Clock \/ Respond

Spec == Init /\ [][Next]_vars

(***************************************************************************)
(* Properties of the analyze handlers.  They read the response in `last`   *)
(* and recompute what it should hold from the registry and from what the   *)
(* providers answered.                                                     *)
(***************************************************************************)
IsAnalyze == last.op \in {"analyze_posts", "AnalysisService.analyze_posts"}

\* the call went past the cache lookup
Ran == IsAnalyze /\ ~last.from_cache

\* positions, in the registry, of the enabled instances the query admits
CandidateIndices(q) ==
    {i \in DOMAIN data_sources :
        /\ data_sources[i].config.enabled
        /\ (q.data_sources = <<>> \/ data_sources[i].name \in Range(q.data_sources))}

CandidateNames(q) == {data_sources[i].name : i \in CandidateIndices(q)}

\* the posts of the candidates that answered, among the first n instances
RECURSIVE PostsFound(_, _, _)
PostsFound(q, resp, n) ==
    IF n = 0 THEN <<>>
    ELSE PostsFound(q, resp, n - 1)
         \o (IF n \in CandidateIndices(q) /\ ~resp[data_sources[n].name].raises
             THEN resp[data_sources[n].name].posts ELSE <<>>)

NoRepeats(s) == Cardinality(Range(s)) = Len(s)

\* C1: with a non-empty candidate set the call returns, every candidate is searched,
\* and sources_used is exactly the candidates whose search did not raise.
C1_PartialFailure ==
    (Ran /\ CandidateNames(last.query) # {}) =>
        /\ last.outcome = "returned"
        /\ Range(last.searched) = CandidateNames(last.query)
        /\ Range(last.result[1].sources_used) =
              {n \in CandidateNames(last.query) : ~last.responses[n].raises}
        /\ NoRepeats(last.result[1].sources_used)

\* three candidates, one of which raises: two sources used
C1_Witness ==
    /\ Ran /\ last.outcome = "returned"
    /\ Cardinality(CandidateNames(last.query)) = 3
    /\ Cardinality({n \in CandidateNames(last.query) : last.responses[n].raises}) = 1
    /\ Len(last.result[1].sources_used) = 2
    /\ last.result[1].sources_used[2] \in CandidateNames(last.query)

C10_TotalBeforePagination ==
    (Ran /\ last.outcome = "returned") =>
        LET q == last.query
            r == last.result[1]
            items == PostsFound(q, last.responses, Len(data_sources))
        IN  /\ r.total_posts = Len(items)
            /\ Len(r.posts) = Min(q.limit, Max(0, r.total_posts - q.offset))
            /\ \A j \in DOMAIN r.posts : r.posts[j] = items[q.offset + j]

\* a page that starts after the first post and is shorter than the total
C10_Witness ==
    /\ Ran /\ last.outcome = "returned"
    /\ last.query.offset > 0
    /\ last.result[1].posts # <<>>
    /\ last.result[1].total_posts > Len(last.result[1].posts) + last.query.offset

\* C2: a call that finds no candidate source fails with "no sources available", also
\* when sources are enabled but the query names none of them, and the failing call
\* changes neither the cache nor the registry.
C2_NoCandidateFails ==
    [][(/\ Ready /\ last'.op \in {"analyze_posts", "AnalysisService.analyze_posts"}
        /\ ~last'.from_cache
        /\ CandidateNames(last'.query) = {})
       => (/\ last'.outcome = "raised"
           /\ cache' = cache
           /\ Registry' = Registry)]_vars

\* C7: a call with use_cache on a fresh entry returns the stored result without
\* searching, scoring or persisting, and leaves the entry's data as it was.
C7_HitReturnsImmediately ==
    [][(/\ Ready /\ last'.op \in {"analyze_posts", "AnalysisService.analyze_posts"}
        /\ last'.use_cache
        /\ CacheHit(cache, last'.query, now))
       => (/\ last'.outcome = "returned"
           /\ last'.result = Some(cache[_generate_key(last'.query)].data)
           /\ last'.searched = <<>>
           /\ ~last'.analyzer_ran
           /\ last'.persisted = <<>>
           /\ _generate_key(last'.query) \in DOMAIN cache'
           /\ cache'[_generate_key(last'.query)].data =
                 cache[_generate_key(last'.query)].data)]_vars

\* C8: a call that returns leaves its result in the cache under the query's key
\* exactly when use_cache is true; with use_cache false the cache is untouched.
C8_StoredIffUseCache ==
    [][(/\ Ready /\ last'.op \in {"analyze_posts", "AnalysisService.analyze_posts"}
        /\ last'.outcome = "returned")
       => IF last'.use_cache
          THEN /\ _generate_key(last'.query) \in DOMAIN cache'
               /\ Some(cache'[_generate_key(last'.query)].data) = last'.result
          ELSE cache' = cache]_vars

(***************************************************************************)
(* SpecPaginate: paginate_results called on lists of 0, 1, 2, ... with     *)
(* offsets and limits on both sides of zero and of the list's end.         *)
(***************************************************************************)
MaxExtraItems == 2      \* lists are up to DefaultPageLimit + MaxExtraItems long
MaxPageOffset == 3      \* offset is -1..MaxPageOffset
MaxPageLimit == 3       \* limit is -1..MaxPageLimit

\* list(range(n))
ItemList(n) == [i \in 1..n |-> i - 1]

InitPaginate ==
    /\ cache = EmptyMap
    /\ now = 0
    /\ InitRegistry
    /\ last = NoCall
    /\ written = EmptyMap
    /\ pair = <<QA, QB>>
    /\ sessions = NoSessions
    /\ inflight = NoCalls

Paginate ==
    /\ Ready
    /\ \E n \in 0..(DefaultPageLimit + MaxExtraItems),
          offset \in -1..MaxPageOffset, limit \in -1..MaxPageLimit :
          last' = [op |-> "paginate_results", items |-> ItemList(n),
                   offset |-> offset, limit |-> limit,
                   ret |-> paginate_results(ItemList(n), offset, limit)]
    /\ UNCHANGED <<cache, now, Registry, written, pair, sessions, inflight>>

NextPaginate == Paginate \/ Respond

SpecPaginate == InitPaginate /\ [][NextPaginate]_vars

\* C11: the page is the run of items from index max(offset, 0), in order, of
\* min(limit', items left) elements, where limit' is 50 for a limit of 0 or less.
C11_PageIsSlice ==
    last.op = "paginate_results" =>
        LET o == IF last.offset < 0 THEN 0 ELSE last.offset
            l == IF last.limit <= 0 THEN 50 ELSE last.limit
        IN  /\ Len(last.ret) = Min(l, Max(0, Len(last.items) - o))
            /\ \A j \in DOMAIN last.ret : last.ret[j] = last.items[o + j]

\* a limit of zero on a list longer than fifty
C11_Witness ==
    /\ last.op = "paginate_results"
    /\ last.limit = 0 /\ last.offset = -1
    /\ Len(last.items) > 50
    /\ Len(last.ret) = 50 /\ last.ret[1] = 0 /\ last.ret[50] = 49

\* C12: clear_expired removes exactly the entries with expires_at <= now, leaves the
\* others as they were, and returns the number removed.
C12_ClearExpiredExact ==
    [][(Ready /\ last'.op = "clear_expired")
       => (/\ DOMAIN cache' = {k \in DOMAIN cache : now < cache[k].expires_at}
           /\ \A k \in DOMAIN cache' : cache'[k] = cache[k]
           /\ last'.ret = Cardinality({k \in DOMAIN cache : cache[k].expires_at <= now})
           /\ last'.ret = Cardinality(DOMAIN cache) - Cardinality(DOMAIN cache'))]_vars

\* a sweep that removed an entry expiring exactly now and kept a fresh one
C12_Witness ==
    /\ last.op = "clear_expired" /\ last.ret = 1
    /\ Cardinality(DOMAIN cache) = 1
    /\ \E k \in DOMAIN written \ DOMAIN cache :
          written[k].at + EffectiveTTL(written[k].ttl) = last.at
    /\ \A k \in DOMAIN cache : cache[k].expires_at > last.at

\* C13: clear_all returns the number of entries held just before it, expired ones
\* included, and empties the cache: stats then count no entry, and a get finds
\* nothing for a key that no set has written since.
C13_ClearAllEmpties ==
    [][/\ (Ready /\ last'.op = "clear_all")
          => (/\ last'.ret = Cardinality(DOMAIN cache)
              /\ DOMAIN cache' = {}
              /\ get_stats(cache', now').total_entries = 0
              /\ \A i \in 1..2 : cache_get_result(cache', pair[i], now') = None)
       /\ (Ready /\ last'.op = "get" /\ _generate_key(last'.query) \notin DOMAIN written)
          => last'.ret = None]_vars

\* two entries cleared, one of them expired and not yet swept
C13_Witness ==
    /\ last.op = "clear_all" /\ last.ret = 2 /\ last.expired = 1
    /\ cache = EmptyMap

\* C14: a get that finds a fresh entry adds one to that entry's hit_count and sets
\* its last_accessed to now; any other get raises no counter.  So each entry's
\* hit_count is the number of gets served from it since it was set, and total_hits
\* in the stats is their sum.
C14_HitsCounted ==
    [][/\ (Ready /\ last'.op = "get") =>
             LET k == _generate_key(last'.query) IN
             IF k \in DOMAIN cache /\ now < cache[k].expires_at
             THEN /\ last'.ret # None
                  /\ cache'[k].hit_count = cache[k].hit_count + 1
                  /\ cache'[k].last_accessed = now
                  /\ \A j \in DOMAIN cache \ {k} : cache'[j] = cache[j]
             ELSE /\ last'.ret = None
                  /\ \A j \in DOMAIN cache' : cache'[j] = cache[j]
       /\ \A k \in DOMAIN cache' : cache'[k].hit_count = written'[k].hits
       /\ (last'.op = "get_stats" /\ DOMAIN cache' = {_generate_key(pair[1])})
             => last'.ret.total_hits = written'[_generate_key(pair[1])].hits]_vars

\* stats after a set and two gets served from it, the later one at a later time
C14_Witness ==
    /\ last.op = "get_stats" /\ last.ret.total_hits = 2 /\ last.ret.total_entries = 1
    /\ \E k \in DOMAIN cache :
          /\ cache[k].hit_count = 2 /\ written[k].hits = 2
          /\ cache[k].last_accessed > cache[k].created_at

\* C15: add_data_source returns False and leaves the configured instances exactly as
\* they were when config.name is no registered type or the new instance reports
\* itself unavailable.
C15_AddFailsCleanly ==
    [][(Ready /\ last'.op = "add_data_source") =>
          LET c == last'.config
              unknown == c.name \notin DOMAIN available_sources
              unavailable == ~unknown /\ ~is_available(DataSource(available_sources[c.name], c))
          IN  /\ (unknown \/ unavailable) =>
                    (last'.ret = FALSE /\ data_sources' = data_sources)
              /\ last'.ret = FALSE => data_sources' = data_sources
              /\ available_sources' = available_sources]_vars

\* a known type whose instance is unavailable, refused while another is configured
C15_Witness ==
    /\ last.op = "add_data_source" /\ last.ret = FALSE
    /\ last.config.name \in DOMAIN available_sources
    /\ last.config.name \notin Keys(data_sources)
    /\ data_sources # <<>>

\* C16: update_source_config(name, config) is remove(name) then add(config) with no
\* rollback: for a configured name whose add fails it returns False and leaves name
\* absent; for a name that is not configured it returns False and changes nothing.
C16_UpdateIsRemoveThenAdd ==
    [][(Ready /\ last'.op = "update_source_config") =>
          LET n == last'.name
              c == last'.config
              without == SelectSeq(data_sources, LAMBDA s : s.name # n)
              addfails ==
                  \/ c.name \notin DOMAIN available_sources
                  \/ ~is_available(DataSource(available_sources[c.name], c))
          IN  IF n \notin {data_sources[i].name : i \in DOMAIN data_sources}
              THEN last'.ret = FALSE /\ data_sources' = data_sources
              ELSE IF addfails
              THEN /\ last'.ret = FALSE
                   /\ data_sources' = without
                   /\ \A i \in DOMAIN data_sources' : data_sources'[i].name # n
              ELSE /\ last'.ret = TRUE
                   /\ {data_sources'[i].name : i \in DOMAIN data_sources'} =
                         {without[i].name : i \in DOMAIN without} \cup {c.name}
                   /\ \A i \in DOMAIN data_sources' :
                         IF data_sources'[i].name = c.name
                         THEN data_sources'[i].config = c
                         ELSE \E j \in DOMAIN without : data_sources'[i] = without[j]]_vars

\* an update of a configured name that failed in the add and left it absent, with
\* another instance still configured
C16_Witness ==
    /\ last.op = "update_source_config" /\ last.existed /\ last.ret = FALSE
    /\ last.name \notin Keys(data_sources)
    /\ data_sources # <<>>

\* C17: remove_data_source returns True exactly when the name was configured and the
\* name is then neither configured nor among the enabled sources; otherwise it
\* returns False and changes nothing.  A close() that fails neither stops the
\* deletion nor reaches the caller.
C17_RemoveDeletes ==
    [][(Ready /\ last'.op = "remove_data_source") =>
          LET n == last'.name
              configured == \E i \in DOMAIN data_sources : data_sources[i].name = n
          IN  /\ ~last'.raised
              /\ last'.ret = configured
              /\ \A i \in DOMAIN data_sources' : data_sources'[i].name # n
              /\ \A i \in DOMAIN get_enabled_sources(data_sources') :
                    get_enabled_sources(data_sources')[i].name # n
              /\ data_sources' = SelectSeq(data_sources, LAMBDA s : s.name # n)
              /\ ~configured => data_sources' = data_sources
              /\ available_sources' = available_sources]_vars

\* a configured source removed although its close() failed, another one kept
C17_Witness ==
    /\ last.op = "remove_data_source" /\ last.close_fails /\ last.ret = TRUE
    /\ last.name \notin Keys(data_sources)
    /\ data_sources # <<>>

BuiltIn == {"TwitterDataSource", "RedditDataSource"}

\* C18: a Twitter or Reddit candidate whose fetch failed is not in sources_used, and
\* the call returns with the remaining candidates searched.
C18_FailedFetchExcluded ==
    Ran =>
        \A i \in CandidateIndices(last.query) :
            (/\ data_sources[i].cls \in BuiltIn
             /\ last.responses # EmptyMap
             /\ last.responses[data_sources[i].name].failed)
            => /\ last.outcome = "returned"
               /\ Range(last.searched) = CandidateNames(last.query)
               /\ data_sources[i].name \notin Range(last.result[1].sources_used)

\* C19: with sentiment requested and an analyzer that fails as a whole, the call still
\* returns; the scores are empty, every distribution count is 0, the average
\* confidence is 0.0, and posts, total_posts and sources_used are what the searches
\* produced.
C19_AnalyzerFailureDegrades ==
    (/\ Ran /\ last.query.include_sentiment /\ last.analyzer_name \notin {"textblob", "vader"}
     /\ \E i \in DOMAIN data_sources : data_sources[i].config.enabled)
    => /\ last.outcome = "returned"
       /\ LET r == last.result[1]
              q == last.query
              items == PostsFound(q, last.responses, Len(data_sources))
          IN  /\ r.sentiment_results = <<>>
              /\ r.sentiment_distribution = [positive |-> 0, negative |-> 0, neutral |-> 0]
              /\ r.average_confidence.num = 0
              /\ r.total_posts = Len(items)
              /\ r.posts = [j \in 1..Min(q.limit, Max(0, Len(items) - q.offset)) |->
                               items[q.offset + j]]
              /\ Range(r.sources_used) =
                    {n \in CandidateNames(q) : ~last.responses[n].raises}

\* posts on the page, sentiment requested, the analyzer's process raised: no scores
C19_Witness ==
    /\ Ran /\ last.outcome = "returned"
    /\ last.query.include_sentiment /\ last.analyzer_name = "raising"
    /\ Len(last.result[1].posts) = 2
    /\ last.result[1].sentiment_results = <<>>
    /\ last.result[1].total_posts > 2

(***************************************************************************)
(* SpecPersist: AnalysisService.analyze_posts over a DatabaseAnalysis-     *)
(* Repository whose database may refuse any of the three kinds of store.   *)
(***************************************************************************)
PersistNames == {"dummy_influencer", "mock"}

PersistConfigs == {c \in ConfigsFor(PersistNames) : ~c.api_key}

PersistQueries ==
    {SearchQuery("test", <<>>, l, 0, None, None, f, 50, Some("en")) :
        l \in 1..MaxLimit, f \in BOOLEAN}

InitPersist ==
    /\ cache = EmptyMap
    /\ now = 0
    /\ InitRegistry
    /\ last = NoCall
    /\ written = EmptyMap
    /\ pair = <<QA, QB>>
    /\ sessions = NoSessions
    /\ inflight = NoCalls

PersistRegister == Ready /\ RegisterDataSource("mock", "PluginDataSource")
PersistAdd == Ready /\ \E c \in PersistConfigs : AddDataSource(c)
PersistAnalyze ==
    Ready /\ \E q \in PersistQueries, a \in AnalyzerNames, r \in Responses, db \in DbOutcomes :
        ServiceAnalyzePosts(q, a, TRUE, r, db)

NextPersist == PersistRegister \/ PersistAdd \/ PersistAnalyze \/ Respond

SpecPersist == InitPersist /\ [][NextPersist]_vars

\* C20: whatever the three saves do (succeed, report failure because the store
\* raised), analyze_posts returns, and its result is what the searches, the
\* pagination and the analyzer produced.
C20_PersistenceNeverMatters ==
    (/\ last.op = "AnalysisService.analyze_posts"
     /\ \E i \in DOMAIN data_sources : data_sources[i].config.enabled)
    => /\ last.outcome = "returned"
       /\ LET r == last.result[1]
              q == last.query
              items == PostsFound(q, last.responses, Len(data_sources))
              scored == q.include_sentiment /\ last.analyzer_name \in {"textblob", "vader"}
          IN  /\ r.total_posts = Len(items)
              /\ r.posts = [j \in 1..Min(q.limit, Max(0, Len(items) - q.offset)) |->
                               items[q.offset + j]]
              /\ Range(r.sources_used) =
                    {n \in CandidateNames(q) : ~last.responses[n].raises}
              /\ Len(r.sentiment_results) = IF scored THEN Len(r.posts) ELSE 0
              /\ \A j \in DOMAIN r.sentiment_results :
                    r.sentiment_results[j].post_id = r.posts[j].id
              /\ r.sentiment_distribution.positive + r.sentiment_distribution.negative
                 + r.sentiment_distribution.neutral = Len(r.sentiment_results)

\* all three saves were attempted and each reported failure; the result has its
\* posts and scores all the same
C20_Witness ==
    /\ last.op = "AnalysisService.analyze_posts" /\ last.outcome = "returned"
    /\ Len(last.persisted) = 3
    /\ \A i \in DOMAIN last.persisted : ~last.persisted[i].ret
    /\ last.result[1].posts # <<>>
    /\ Len(last.result[1].sentiment_results) = Len(last.result[1].posts)

(***************************************************************************)
(* SpecClassify: _classify_sentiment on every polarity from -1.00 to 1.00  *)
(* in steps of 0.01.                                                       *)
(***************************************************************************)
InitClassify ==
    /\ cache = EmptyMap
    /\ now = 0
    /\ InitRegistry
    /\ last = NoCall
    /\ written = EmptyMap
    /\ pair = <<QA, QB>>
    /\ sessions = NoSessions
    /\ inflight = NoCalls

Classify ==
    /\ Ready
    /\ \E polarity \in -100..100 :
          last' = [op |-> "_classify_sentiment", polarity |-> polarity,
                   ret |-> _classify_sentiment(polarity)]
    /\ UNCHANGED <<cache, now, Registry, written, pair, sessions, inflight>>

NextClassify == Classify \/ Respond

SpecClassify == InitClassify /\ [][NextClassify]_vars

\* C21: above 0.1 is positive, below -0.1 is negative, and everything from -0.1 to
\* 0.1, both ends included, is neutral.
C21_StrictThresholds ==
    last.op = "_classify_sentiment" =>
        /\ last.polarity > 10 => last.ret = "positive"
        /\ last.polarity < -10 => last.ret = "negative"
        /\ (-10 <= last.polarity /\ last.polarity <= 10) => last.ret = "neutral"

\* exactly 0.1 is neutral
C21_Witness ==
    last.op = "_classify_sentiment" /\ last.polarity = 10 /\ last.ret = "neutral"

(***************************************************************************)
(* SpecBot: DataSource.detect_bot on posts around every threshold of the   *)
(* heuristic.  Confidence is counted in hundredths.  A text is described   *)
(* by what detect_bot reads of it: its length, its number of '#' and the   *)
(* spam phrases it contains.                                               *)
(***************************************************************************)
HighLikes == 10000
ShortText == 50
ManyHashtags == 5
ManyMentions == 3
MaxHashtags == 6
MaxMentions == 4

generic_phrases ==
    {"click here", "follow me", "check out", "amazing deal",
     "limited time", "act now", "free money", "get rich"}

PhraseLen(phrase) ==
    CASE phrase = "click here" -> 10
      [] phrase = "follow me" -> 9
      [] phrase = "check out" -> 9
      [] phrase = "amazing deal" -> 12
      [] phrase = "limited time" -> 12
      [] phrase = "act now" -> 7
      [] phrase = "free money" -> 10
      [] phrase = "get rich" -> 8

RECURSIVE SumPhraseLen(_)
SumPhraseLen(phrases) ==
    IF phrases = {} THEN 0
    ELSE LET phrase == CHOOSE x \in phrases : TRUE
         IN  PhraseLen(phrase) + SumPhraseLen(phrases \ {phrase})

\* the texts that exist: the phrases and the '#' characters fit in the length
BotTexts ==
    {t \in [length : {ShortText - 1, ShortText, 2 * ShortText},
            hashes : 0..MaxHashtags,
            phrases : SUBSET generic_phrases] :
        t.hashes + SumPhraseLen(t.phrases) <= t.length}

BotPosts ==
    [likes : {0, HighLikes, HighLikes + 1},
     text : BotTexts,
     mentions : 0..MaxMentions]

Penalties(post) ==
    (IF post.likes > HighLikes /\ post.text.length < ShortText THEN 30 ELSE 0)
    + (IF post.text.hashes > ManyHashtags THEN 20 ELSE 0)
    + (IF post.mentions > ManyMentions THEN 20 ELSE 0)
    + 10 * Cardinality({phrase \in generic_phrases : phrase \in post.text.phrases})

\* the score without the final clamp
detect_bot_unclamped(post) == 100 - Penalties(post)

detect_bot(post) == Max(0, Min(100, 100 - Penalties(post)))

InitBot ==
    /\ cache = EmptyMap
    /\ now = 0
    /\ InitRegistry
    /\ last = NoCall
    /\ written = EmptyMap
    /\ pair = <<QA, QB>>
    /\ sessions = NoSessions
    /\ inflight = NoCalls

DetectBot ==
    /\ Ready
    /\ \E post \in BotPosts :
          last' = [op |-> "detect_bot", post |-> post, ret |-> detect_bot(post)]
    /\ UNCHANGED <<cache, now, Registry, written, pair, sessions, inflight>>

NextBot == DetectBot \/ Respond

SpecBot == InitBot /\ [][NextBot]_vars

NoRedFlag(post) ==
    /\ ~(post.likes > HighLikes /\ post.text.length < ShortText)
    /\ post.text.hashes <= ManyHashtags
    /\ post.mentions <= ManyMentions
    /\ post.text.phrases = {}

\* C22: the bot-detection confidence lies in [0, 1]; a post with more than 10,000
\* likes and fewer than 50 characters scores at most 0.7; a post with no red flag
\* scores exactly 1.0.
C22_BotConfidence ==
    last.op = "detect_bot" =>
        /\ 0 <= last.ret /\ last.ret <= 100
        /\ (last.post.likes > 10000 /\ last.post.text.length < 50) => last.ret <= 70
        /\ NoRedFlag(last.post) => last.ret = 100

\* a much-liked short post with no other flag scores exactly 0.7
C22_Witness ==
    /\ last.op = "detect_bot"
    /\ last.post.likes > 10000 /\ last.post.text.length < 50
    /\ last.post.text.phrases = {} /\ last.post.mentions = 0
    /\ last.ret = 70

(***************************************************************************)
(* SpecClose: the HTTP sessions of the provider instances.  A Twitter or   *)
(* Reddit instance opens its session at its first search and closes it in  *)
(* close(); the registry calls close() from remove_data_source (as a task  *)
(* left on the event loop) and from close_all (awaited).  An instance that *)
(* left the registry can only be reached by its own close() task.          *)
(***************************************************************************)
MaxDetached == 2    \* instances outside the registry with an open session

CloseNames == {"twitter", "reddit", "dummy_influencer", "mock"}
CloseConfigs == {c \in ConfigsFor(CloseNames) : c.api_key = (c.name = "twitter")}

\* hasattr(data_source, "close")
HasClose(source) == source.cls \in {"TwitterDataSource", "RedditDataSource"}

Detached(ss) == ss.scheduled + ss.leaked + ss.replaced

\* remove_data_source on the sessions: the instance leaves the registry; its open
\* session waits for the scheduled close(), or for nothing when scheduling failed
SessionsAfterRemove(ss, ds, name, close_fails) ==
    IF name \in Keys(ds) /\ name \in ss.held
    THEN [ss EXCEPT !.held = @ \ {name},
                    !.scheduled = @ + (IF close_fails THEN 0 ELSE 1),
                    !.leaked = @ + (IF close_fails THEN 1 ELSE 0)]
    ELSE ss

\* add_data_source on the sessions: an instance stored over another one drops the
\* old instance without closing it
SessionsAfterAdd(ss, avail, ds, config) ==
    IF add_data_source(avail, ds, config).ret /\ config.name \in ss.held
    THEN [ss EXCEPT !.held = @ \ {config.name}, !.replaced = @ + 1]
    ELSE ss

InitClose ==
    /\ cache = EmptyMap
    /\ now = 0
    /\ InitRegistry
    /\ last = NoCall
    /\ written = EmptyMap
    /\ pair = <<QA, QB>>
    /\ sessions = NoSessions
    /\ inflight = NoCalls

CloseRegister == Ready /\ RegisterDataSource("mock", "PluginDataSource")

CloseAdd ==
    /\ Ready
    /\ \E c \in CloseConfigs :
          /\ sessions' = SessionsAfterAdd(sessions, available_sources, data_sources, c)
          /\ Detached(sessions') <= MaxDetached
          /\ data_sources' = add_data_source(available_sources, data_sources, c).sources
          /\ last' = [op |-> "add_data_source", config |-> c,
                      ret |-> add_data_source(available_sources, data_sources, c).ret]
    /\ UNCHANGED <<cache, now, available_sources, written, pair, inflight>>

\* _get_session, at the start of an available instance's search_posts
GetSession ==
    /\ Ready
    /\ \E i \in 1..Len(data_sources) :
          /\ HasClose(data_sources[i]) /\ is_available(data_sources[i])
          /\ sessions' = [sessions EXCEPT !.held = @ \cup {data_sources[i].name}]
          /\ last' = [op |-> "_get_session", name |-> data_sources[i].name]
    /\ UNCHANGED <<cache, now, Registry, written, pair, inflight>>

CloseRemove ==
    /\ Ready
    /\ \E n \in CloseNames, f \in BOOLEAN :
          /\ sessions' = SessionsAfterRemove(sessions, data_sources, n, f)
          /\ Detached(sessions') <= MaxDetached
          /\ data_sources' = remove_data_source(data_sources, n, f).sources
          /\ last' = [op |-> "remove_data_source", name |-> n, close_fails |-> f,
                      ret |-> remove_data_source(data_sources, n, f).ret,
                      held |-> n \in sessions.held]
    /\ UNCHANGED <<cache, now, available_sources, written, pair, inflight>>

CloseUpdate ==
    /\ Ready
    /\ \E n \in CloseNames, c \in CloseConfigs, f \in BOOLEAN :
          /\ n \in Keys(data_sources)
          /\ sessions' =
                SessionsAfterAdd(SessionsAfterRemove(sessions, data_sources, n, f),
                                 available_sources,
                                 remove_data_source(data_sources, n, f).sources, c)
          /\ Detached(sessions') <= MaxDetached
          /\ data_sources' =
                update_source_config(available_sources, data_sources, n, c, f).sources
          /\ last' = [op |-> "update_source_config", name |-> n, config |-> c,
                      ret |-> update_source_config(available_sources, data_sources,
                                                   n, c, f).ret]
    /\ UNCHANGED <<cache, now, available_sources, written, pair, inflight>>

\* the loop runs a close() task left by remove_data_source; when session.close()
\* raises, the task ends with an exception nobody retrieves and the session stays open
RunCloseTask ==
    /\ Ready
    /\ sessions.scheduled > 0
    /\ \E close_raises \in BOOLEAN :
          /\ sessions' = [sessions EXCEPT !.scheduled = @ - 1,
                                          !.leaked = @ + (IF close_raises THEN 1 ELSE 0)]
          /\ last' = [op |-> "close", raised |-> close_raises]
    /\ UNCHANGED <<cache, now, Registry, written, pair, inflight>>

\* close_all: awaits close() of every instance in the registry; failing is the set of
\* instances whose session.close() raises, which the bare except passes over
CloseAll ==
    /\ Ready
    /\ \E failing \in SUBSET sessions.held :
          /\ sessions' = [sessions EXCEPT !.held = failing]
          /\ last' = [op |-> "close_all", failing |-> failing]
    /\ UNCHANGED <<cache, now, Registry, written, pair, inflight>>

NextClose ==
    \/ CloseRegister
    \/ CloseAdd
    \/ GetSession
    \/ CloseRemove
    \/ CloseUpdate
    \/ RunCloseTask
    \/ CloseAll
    \/ Respond

SpecClose == InitClose /\ [][NextClose]_vars

\* C23: the session of an instance the registry removed is eventually released, and
\* once close_all has returned every configured instance's session has been released,
\* also when a close fails.  A session counted in sessions.leaked belongs to an
\* instance that nothing refers to any more and that no task will close, so eventual
\* release requires that count to stay 0.
C23_HandlesReleased ==
    /\ sessions.leaked = 0
    /\ last.op = "close_all" => sessions.held = {}

\* the candidates of q in the order of the registry
OrderedCandidates(q) ==
    SelectSeq(data_sources,
              LAMBDA s : /\ s.config.enabled
                         /\ (q.data_sources = <<>> \/ s.name \in Range(q.data_sources)))

NamesOf(sources) == [i \in DOMAIN sources |-> sources[i].name]

\* the names a registry step took out of the registry before anything it added
RemovedBy(call) ==
    IF \/ call.op = "remove_data_source"
       \/ call.op = "update_source_config" /\ call.existed
    THEN {call.name} ELSE {}

\* C24: the registry keeps its instances in the order they were registered (a name
\* that is registered, or registered again after its removal, goes last, and the
\* others keep their relative order); analyze searches the candidates in that order,
\* and its posts are the page of the concatenation, in that order, of what the
\* answering candidates returned, sources_used listing them in the same order.  The
\* result is thereby a function of the registry, the query and the responses.
C24_RegistrationOrder ==
    [][/\ (Ready /\ last'.op \in {"add_data_source", "remove_data_source",
                                  "update_source_config"}) =>
             LET stayed == (Keys(data_sources) \ RemovedBy(last')) \cap Keys(data_sources')
             IN  /\ \A a, b \in stayed :
                        IndexOf(data_sources, a) < IndexOf(data_sources, b)
                        => IndexOf(data_sources', a) < IndexOf(data_sources', b)
                 /\ \A a \in Keys(data_sources') \ stayed :
                        IndexOf(data_sources', a) = Len(data_sources')
       /\ (/\ Ready
           /\ last'.op \in {"analyze_posts", "AnalysisService.analyze_posts"}
           /\ ~last'.from_cache /\ last'.outcome = "returned") =>
             LET q == last'.query
                 resp == last'.responses
                 cand == OrderedCandidates(q)
                 answered == SelectSeq(cand, LAMBDA s : ~resp[s.name].raises)
             IN  /\ last'.searched = NamesOf(cand)
                 /\ last'.result[1].sources_used = NamesOf(answered)
                 /\ last'.result[1].posts =
                       paginate_results(PostsFound(q, resp, Len(data_sources)),
                                        q.offset, q.limit)
      ]_vars

\* the query names mock before twitter, the registry holds twitter before mock: the
\* page shows twitter's post first
C24_Witness ==
    /\ Ran /\ last.outcome = "returned"
    /\ last.query.data_sources = <<"mock", "twitter">>
    /\ last.result[1].sources_used = <<"twitter", "mock">>
    /\ Len(last.result[1].posts) = 2
    /\ last.result[1].posts[1].source = "twitter"
    /\ last.result[1].posts[2].source = "mock"

\* C25: an entry expires at the time of its set plus the TTL given to the set, for
\* every explicit TTL, 0 included (such an entry is never returned by a get), and at
\* the time of its set plus the default TTL only when no TTL was given.
C25_ExpiryIsSetTimePlusTTL ==
    \A k \in DOMAIN written :
        LET w == written[k]
            ttl == IF w.ttl = None THEN default_ttl ELSE w.ttl[1]
        IN  /\ (k \in DOMAIN cache /\ cache[k].created_at = w.at)
               => cache[k].expires_at = w.at + ttl
            /\ (last.op = "get" /\ _generate_key(last.query) = k /\ w.ttl = Some(0))
               => last.ret = None

\* the confidences of the first n scores, added up
RECURSIVE ConfidenceTotal(_, _)
ConfidenceTotal(scores, n) ==
    IF n = 0 THEN 0 ELSE ConfidenceTotal(scores, n - 1) + scores[n].confidence

\* C26: in every result an analyze call returns, the three counts of the sentiment
\* distribution add up to the number of scores, and average_confidence is the mean of
\* the scores' confidences, 0.0 when there is no score.
C26_AggregatesMatchScores ==
    (IsAnalyze /\ last.outcome = "returned") =>
        LET result == last.result[1]
            scores == result.sentiment_results
            dist == result.sentiment_distribution
            avg == result.average_confidence
        IN  /\ dist.positive + dist.negative + dist.neutral = Len(scores)
            /\ avg.den > 0
            /\ IF scores = <<>> THEN avg.num = 0
               ELSE avg.num * Len(scores) = ConfidenceTotal(scores, Len(scores)) * avg.den

\* two scores of different sentiment, one of them neutral, with a positive mean
C26_Witness ==
    /\ Ran /\ last.outcome = "returned"
    /\ Len(last.result[1].sentiment_results) = 2
    /\ last.result[1].sentiment_distribution.neutral = 1
    /\ last.result[1].sentiment_distribution.negative = 1
    /\ last.result[1].average_confidence.num > 0

\* C27: a registry operation leaves the cache as it was, and the endpoint called with
\* use_cache returns what the last set for the query stored, while that entry has not
\* expired, whatever the registry has become since.
C27_RegistryLeavesCache ==
    [][/\ (Ready /\ last'.op \in {"register_data_source", "add_data_source",
                                  "remove_data_source", "update_source_config"})
          => cache' = cache
       /\ (/\ Ready /\ last'.op = "analyze_posts" /\ last'.use_cache
           /\ _generate_key(last'.query) \in DOMAIN written
           /\ now < written[_generate_key(last'.query)].at + default_ttl)
          => /\ last'.outcome = "returned"
             /\ last'.from_cache
             /\ last'.result = Some(written[_generate_key(last'.query)].data)
      ]_vars

\* the endpoint served a result whose only source has been removed: no instance is
\* configured any more
C27_Witness ==
    /\ last.op = "analyze_posts" /\ last.from_cache
    /\ last.result[1].sources_used = <<"mock">>
    /\ data_sources = <<>>

\* C28: a configured Twitter or Reddit instance is never disabled, so that a registry
\* holding only such instances has get_enabled_sources return all of them; and every
\* configured instance sits under the key that is its own config.name, one per key.
C28_BuiltInsEnabled ==
    /\ \A i \in DOMAIN data_sources :
          /\ data_sources[i].cls \in BuiltIn => data_sources[i].config.enabled
          /\ data_sources[i].name = data_sources[i].config.name
    /\ NoRepeats(NamesOf(data_sources))
    /\ (\A i \in DOMAIN data_sources : data_sources[i].cls \in BuiltIn)
       => get_enabled_sources(data_sources) = data_sources

\* both built-in providers are configured and an update of one of them with a disabled
\* config has just taken it out
C28_Witness ==
    /\ last.op = "update_source_config" /\ last.name = "reddit"
    /\ last.config.name = "reddit" /\ ~last.config.enabled /\ ~last.ret
    /\ Keys(data_sources) = {"twitter"}

\* C29: update_source_config(name, config) on a configured name with config.name
\* another name always leaves name not configured; when it returns True the registry
\* holds, under config.name, exactly one instance and it carries config (whatever
\* was there before is gone); when it returns False nothing is stored for config.
C29_UpdateUnderOtherName ==
    [][(/\ Ready /\ last'.op = "update_source_config"
        /\ last'.existed /\ last'.config.name # last'.name)
       => LET n == last'.name
              c == last'.config
              under == {i \in DOMAIN data_sources' : data_sources'[i].name = c.name}
          IN  /\ n \in Keys(data_sources)
              /\ n \notin Keys(data_sources')
              /\ IF last'.ret
                 THEN /\ Cardinality(under) = 1
                      /\ \A i \in under : data_sources'[i].config = c
                 ELSE \A i \in under : data_sources'[i] \in Range(data_sources)]_vars

\* update("mock", config of dummy_influencer) returned True over a configured
\* dummy_influencer of a different config: mock is gone, the old instance replaced
C29_Witness ==
    /\ last.op = "update_source_config" /\ last.existed /\ last.ret
    /\ last.name = "mock" /\ last.config.name = "dummy_influencer"
    /\ ~last.config.enabled
    /\ "mock" \notin Keys(data_sources)
    /\ \E i \in DOMAIN data_sources :
          data_sources[i].name = "dummy_influencer" /\ data_sources[i].config = last.config
    /\ "twitter" \in Keys(data_sources)

(***************************************************************************)
(* SpecRace: two requests to main.py analyze_posts on one event loop.  A   *)
(* coroutine only gives way at an await: the handler's awaits are the      *)
(* source.search_posts calls, so the cache lookup with the registry read,  *)
(* and the resumption after the last search up to the return, each run     *)
(* without interruption.  The registry holds twitter and a plugin source.  *)
(***************************************************************************)
RaceQueries == {QA}

\* what a source answers to one search: it fails or it has one post
RaceAnswers(source) ==
    {r \in search_posts(source) : r.raises \/ r.failed \/ Len(r.posts) = 1}

\* a store that keeps the entry another request has already put there
analyze_store_if_absent(c, q, result, t) ==
    IF _generate_key(q) \in DOMAIN c THEN c ELSE cache_set(c, q, result, None, t)

\* "if use_cache: cache_manager.set(query, analysis_result)"
analyze_store(c, q, result, t) == cache_set(c, q, result, None, t)

Other(i) == 3 - i

\* the request has returned; nth counts the requests of this round that returned
Done(i, q, use_cache, overlapped, from_cache, outcome, result, responses, at) ==
    [pc |-> "done", query |-> q, use_cache |-> use_cache, overlapped |-> overlapped,
     from_cache |-> from_cache, outcome |-> outcome, result |-> result,
     responses |-> responses, at |-> at,
     nth |-> IF inflight[Other(i)].pc = "done" THEN 2 ELSE 1]

\* from the resumption after the last search to the return
RaceFinish(i, q, use_cache, overlapped, enabled, responses) ==
    LET run == Pipeline(q, "textblob", responses, enabled, now) IN
    /\ cache' = IF use_cache THEN analyze_store(cache, q, run.result, now) ELSE cache
    /\ written' = IF use_cache
                  THEN MapPut(written, _generate_key(q),
                              [query |-> q, data |-> run.result, at |-> now,
                               ttl |-> None, hits |-> 0])
                  ELSE written
    /\ inflight' = [inflight EXCEPT ![i] =
                       Done(i, q, use_cache, overlapped, FALSE, "returned",
                            Some(run.result), responses, now)]

InitRace ==
    /\ cache = EmptyMap
    /\ now = 0
    /\ available_sources =
          [n \in {"twitter", "reddit", "dummy_influencer", "mock"} |->
              CASE n = "twitter" -> "TwitterDataSource"
                [] n = "reddit" -> "RedditDataSource"
                [] n = "dummy_influencer" -> "DummyInfluencerSource"
                [] n = "mock" -> "PluginDataSource"]
    /\ data_sources =
          <<DataSource("TwitterDataSource", DataSourceConfig("twitter", TRUE, TRUE)),
            DataSource("PluginDataSource", DataSourceConfig("mock", TRUE, FALSE))>>
    /\ last = NoCall
    /\ written = EmptyMap
    /\ pair = <<QA, QB>>
    /\ sessions = NoSessions
    /\ inflight = NoCalls

\* a request arrives: the cache lookup, the registry read and the source filter, up to
\* the first await
RaceBegin ==
    \E i \in 1..2, q \in RaceQueries, use_cache \in BOOLEAN :
        LET hit == use_cache /\ CacheHit(cache, q, now)
            looked == IF use_cache THEN cache_get_store(cache, q, now) ELSE cache
            enabled == get_enabled_sources(data_sources)
            use == sources_to_use(enabled, q)
            overlapped == inflight[Other(i)].pc = "searching"
        IN  /\ inflight[i].pc = "idle"
            /\ hit => cache[_generate_key(q)].hit_count < MaxHits
            /\ IF hit
               THEN /\ cache' = looked
                    /\ written' = Served(written, q, cache_get_result(cache, q, now))
                    /\ inflight' = [inflight EXCEPT ![i] =
                          Done(i, q, use_cache, overlapped, TRUE, "returned",
                               cache_get_result(cache, q, now), EmptyMap, now)]
               ELSE IF enabled = <<>>
               THEN /\ cache' = looked
                    /\ written' = written
                    /\ inflight' = [inflight EXCEPT ![i] =
                          Done(i, q, use_cache, overlapped, FALSE, "raised", None,
                               EmptyMap, now)]
               ELSE IF use = <<>>
               THEN RaceFinish(i, q, use_cache, overlapped, enabled, EmptyMap)
               ELSE /\ cache' = looked
                    /\ written' = written
                    /\ inflight' = [inflight EXCEPT ![i] =
                          [pc |-> "searching", query |-> q, use_cache |-> use_cache,
                           overlapped |-> overlapped, enabled |-> enabled,
                           sources |-> use, next |-> 1, responses |-> EmptyMap]]
    /\ UNCHANGED <<now, Registry, last, pair, sessions>>

\* an awaited search_posts completes and the request runs on: to the next search, or
\* through pagination, scoring and the store to its return
RaceSearch ==
    \E i \in 1..2 :
        /\ inflight[i].pc = "searching"
        /\ LET call == inflight[i]
               source == call.sources[call.next]
           IN  \E answer \in RaceAnswers(source) :
                  LET responses == MapPut(call.responses, source.name, answer) IN
                  IF call.next < Len(call.sources)
                  THEN /\ inflight' = [inflight EXCEPT ![i].next = @ + 1,
                                                       ![i].responses = responses]
                       /\ UNCHANGED <<cache, written>>
                  ELSE RaceFinish(i, call.query, call.use_cache, call.overlapped,
                                  call.enabled, responses)
    /\ UNCHANGED <<now, Registry, last, pair, sessions>>

\* both responses have been sent
RaceReturn ==
    /\ \A i \in 1..2 : inflight[i].pc = "done"
    /\ inflight' = NoCalls
    /\ UNCHANGED <<cache, now, Registry, last, written, pair, sessions>>

RaceTick == Ready /\ Tick

NextRace == RaceBegin \/ RaceSearch \/ RaceReturn \/ RaceTick

SpecRace == InitRace /\ [][NextRace]_vars

\* both requests of the round have returned, for one query, with use_cache, neither
\* from the cache, the later one having started while the earlier one was searching
BothMissed ==
    /\ \A i \in 1..2 :
          /\ inflight[i].pc = "done"
          /\ inflight[i].use_cache /\ ~inflight[i].from_cache
    /\ inflight[1].query = inflight[2].query
    /\ inflight[1].overlapped \/ inflight[2].overlapped

\* C30: two requests for one query with use_cache that both miss before either stores
\* each search every candidate and return the result computed from their own answers;
\* once both have returned the cache holds, under the query's key, the result of the
\* request that stored last, with hit count 0.
C30_LastStoreWins ==
    BothMissed =>
        LET k == _generate_key(inflight[1].query) IN
        /\ \A i \in 1..2 :
              /\ inflight[i].outcome = "returned"
              /\ DOMAIN inflight[i].responses = CandidateNames(inflight[i].query)
              /\ inflight[i].result =
                    Some(Pipeline(inflight[i].query, "textblob", inflight[i].responses,
                                  get_enabled_sources(data_sources), inflight[i].at).result)
        /\ k \in DOMAIN cache
        /\ \E i \in 1..2 :
              /\ inflight[i].nth = 2
              /\ Some(cache[k].data) = inflight[i].result
        /\ cache[k].hit_count = 0

\* the two requests computed different results and the cache holds the second one's
C30_Witness ==
    /\ BothMissed
    /\ inflight[1].result # inflight[2].result
    /\ inflight[1].result[1].sources_used # inflight[2].result[1].sources_used
    /\ \E i \in 1..2 :
          /\ inflight[i].nth = 2
          /\ Some(cache[_generate_key(inflight[i].query)].data) = inflight[i].result

====
